---- MODULE Spec2Model ----
(***************************************************************************)
(* The recipe chat: the client page (src/src/app/page.tsx, lines 1-328),   *)
(* the /api/chat route handler (page.tsx, lines 330-393), the workflow     *)
(* step (src/src/mastra/workflows/recipe-workflow.ts) and the shared types *)
(* (src/src/types/chat.ts).                                                *)
(*                                                                         *)
(* Values.  A text (message content, input field) is a sequence of tokens; *)
(* the token SP is white space, so that trim() is computed and not         *)
(* assumed.  Error texts are TLA+ strings.  A JavaScript value that may be *)
(* undefined is encoded by a reserved value of the same TLA+ type.         *)
(***************************************************************************)
EXTENDS Integers, Sequences, FiniteSets, TLC

VARIABLES
    messages,     \* useState<UIMessage[]>            page.tsx:128
    input,        \* useState("")                     page.tsx:131
    isLoading,    \* useState(false)                  page.tsx:132
    error,        \* useState<string | null>(null)    page.tsx:133
    isHydrated,   \* useState(false)                  page.tsx:134
    storage,      \* localStorage[STORAGE_KEY]        page.tsx:17
    passive,      \* passive effects of the last commit that have not run yet
    calls,        \* the handleSubmit invocations suspended at an await
    nextId,       \* generateId / createRunAsync: the next unused identifier
    turns,        \* submissions accepted so far
    clears,       \* clears that took effect so far
    clearedBelow, \* the number generateId gave the welcome message of the last clear
    reloads,      \* page reloads so far
    gwBody,       \* gateway under test: the request body
    gwEnv,        \* gateway under test: what the collaborators do
    gwResp,       \* gateway under test: the response produced
    gwPc,         \* gateway under test: where the route handler is
    agentCalls,   \* gateway under test: calls of recipeAgent.generate so far
    rendered,     \* segmenter under test: the content of the message rendered
    segments      \* segmenter under test: what parseMessageContent returned

clientVars == <<messages, input, isLoading, error, isHydrated, storage, passive,
                calls, nextId, turns, clears, clearedBelow, reloads>>
gwVars == <<gwBody, gwEnv, gwResp, gwPc, agentCalls>>
parserVars == <<rendered, segments>>
vars == <<messages, input, isLoading, error, isHydrated, storage, passive,
          calls, nextId, turns, clears, clearedBelow, reloads, gwBody, gwEnv,
          gwResp, gwPc, agentCalls, rendered, segments>>

(***************************************************************************)
(* Bounds of the model.                                                    *)
(***************************************************************************)
MaxTurns == 2
MaxClears == 1
MaxReloads == 1
MaxBodyLen == 2
MaxLines == 3

(***************************************************************************)
(* Identifiers.  generateId (crypto.randomUUID) and the run identifier of  *)
(* createRunAsync are fresh; the identifiers an agent reports are its own. *)
(***************************************************************************)
Id(ns, n) == [ns |-> ns, n |-> n]
NoId == Id("undefined", 0)
generateId == Id("local", nextId)
AgentResponseId == Id("response", 0)
AgentTraceId == Id("trace", 0)

(***************************************************************************)
(* Texts.                                                                  *)
(***************************************************************************)
SP == " "
UndefinedText == <<"<undefined>">>
\* String constants of the source that are not ASCII are named by what they say.
WelcomeContent == <<"welcome: tell me what you want to eat today">>
FallbackContent == <<"sorry, no answer for now, please retry later">>
ReplyText == <<"Try", SP, "stir-fry">>
EmptyText == <<>>
InputTexts == { <<>>, <<SP>>, <<"hi">>, <<SP, "hi", SP>> }

RECURSIVE TrimStart(_)
TrimStart(t) == IF t # <<>> /\ Head(t) = SP THEN TrimStart(Tail(t)) ELSE t

RECURSIVE TrimEnd(_)
TrimEnd(t) ==
    IF t # <<>> /\ t[Len(t)] = SP THEN TrimEnd(SubSeq(t, 1, Len(t) - 1)) ELSE t

\* String.prototype.trim
Trim(t) == TrimEnd(TrimStart(t))

(***************************************************************************)
(* Messages.  usage is UsageAbsent when the object has no usage key,       *)
(* UsageUndefined when the key is there with the value undefined.          *)
(***************************************************************************)
chatRoles == {"user", "assistant", "system"}
UndefinedRole == "<undefined>"
UsageAbsent == "<absent>"
UsageUndefined == "<undefined>"
SomeUsage == "{inputTokens:12,outputTokens:34}"

UIMessage(id, role, content, usage) ==
    [id |-> id, role |-> role, content |-> content, usage |-> usage]

createWelcomeMessage(id) == UIMessage(id, "assistant", WelcomeContent, UsageAbsent)

\* An array element that is an object with none of the fields of a message.
NotAMessage == UIMessage(NoId, UndefinedRole, UndefinedText, UsageAbsent)

\* message.usage as read by the page: undefined when the key is missing.
UsageOf(m) == IF m.usage = UsageAbsent THEN UsageUndefined ELSE m.usage

Null == "<null>"
Absent == "<absent>"

(***************************************************************************)
(* The gateway: POST /api/chat (page.tsx:330-393) and the workflow step    *)
(* (recipe-workflow.ts:33-63).                                             *)
(*                                                                         *)
(* A request body is [kind, list]: kind is "notjson" (req.json() throws),  *)
(* "null" (JSON null), "nomessages" (an object without messages),          *)
(* "notarray" (messages is a string) or "list" (messages is the array      *)
(* list of {role, content} objects, either of which may be undefined).     *)
(***************************************************************************)
Body(kind, list) == [kind |-> kind, list |-> list]
ChatMessage(role, content) == [role |-> role, content |-> content]

BodyRoles == {"user", "assistant", "bogus", UndefinedRole}
BodyContents == {EmptyText, <<"hi">>, UndefinedText}
BodyMessages == {ChatMessage(r, c) : r \in BodyRoles, c \in BodyContents}

RECURSIVE SeqsUpTo(_, _)
SeqsUpTo(S, n) ==
    IF n = 0 THEN {<<>>}
    ELSE LET shorter == SeqsUpTo(S, n - 1)
         IN  shorter \cup {Append(q, x) : q \in {r \in shorter : Len(r) = n - 1}, x \in S}

Bodies ==
    {Body(k, <<>>) : k \in {"notjson", "null", "nomessages", "notarray"}}
    \cup {Body("list", l) : l \in SeqsUpTo(BodyMessages, MaxBodyLen)}

\* The issue messages of the validation library for the schemas of
\* page.tsx:337-344, in the order the library reports them.
RequiredIssue == "Required"
EnumIssue(role) ==
    "Invalid enum value. Expected 'user' | 'assistant' | 'system', received '"
        \o role \o "'"
EmptyContentIssue == "content must not be empty"
EmptyListIssue == "at least one message is needed"

\* messageSchema: z.object({role: z.enum(chatRoles), content: z.string().min(1)})
messageSchema(m) ==
    (IF m.role = UndefinedRole THEN <<RequiredIssue>>
     ELSE IF m.role \notin chatRoles THEN <<EnumIssue(m.role)>>
     ELSE <<>>)
    \o
    (IF m.content = UndefinedText THEN <<RequiredIssue>>
     ELSE IF Len(m.content) < 1 THEN <<EmptyContentIssue>>
     ELSE <<>>)

RECURSIVE ElementIssues(_)
ElementIssues(list) ==
    IF list = <<>> THEN <<>>
    ELSE messageSchema(Head(list)) \o ElementIssues(Tail(list))

\* requestSchema.parse(body): the issues of the ZodError, <<>> when it passes.
requestSchema(body) ==
    CASE body.kind = "null" -> <<"Expected object, received null">>
      [] body.kind = "nomessages" -> <<RequiredIssue>>
      [] body.kind = "notarray" -> <<"Expected array, received string">>
      [] OTHER -> IF Len(body.list) < 1 THEN <<EmptyListIssue>>
                  ELSE ElementIssues(body.list)

\* error.issues.map((issue) => issue.message).join(", ")
RECURSIVE Join(_)
Join(issues) ==
    IF issues = <<>> THEN ""
    ELSE IF Len(issues) = 1 THEN Head(issues)
    ELSE Head(issues) \o ", " \o Join(Tail(issues))

(***************************************************************************)
(* What the collaborators do for one request: whether the workflow is      *)
(* registered, how the run ends ("rejects": createRunAsync or start        *)
(* throws; "failed": the step threw, and "suspended": both runs whose      *)
(* status is not success; "success": the step returned), what the agent    *)
(* returned when it was called and returned, and the identifier            *)
(* createRunAsync gave the run.                                            *)
(***************************************************************************)
AgentResults ==
    [text : {UndefinedText, EmptyText, ReplyText},
     usage : {UsageUndefined, SomeUsage},
     responseId : {NoId, AgentResponseId},
     traceId : {NoId, AgentTraceId}]
NoAgentResult ==
    [text |-> UndefinedText, usage |-> UsageUndefined, responseId |-> NoId,
     traceId |-> NoId]

Env(workflow, run, agent, runId) ==
    [workflow |-> workflow, run |-> run, agent |-> agent, runId |-> runId]

Envs(agents, runId) ==
    {Env("missing", "none", NoAgentResult, runId)}
    \cup {Env("registered", r, NoAgentResult, runId) :
              r \in {"rejects", "failed", "suspended"}}
    \cup {Env("registered", "success", a, runId) : a \in agents}

\* The agent results the client's turns are answered with: no text, no usage
\* and no identifier; everything there; a text with a trace identifier only.
AgentReplies ==
    {NoAgentResult,
     [text |-> ReplyText, usage |-> SomeUsage, responseId |-> AgentResponseId,
      traceId |-> AgentTraceId],
     [text |-> ReplyText, usage |-> UsageUndefined, responseId |-> NoId,
      traceId |-> AgentTraceId]}

\* delegateToAgent.execute: the step's output for the agent's result.
execute(agent) ==
    [message |-> ChatMessage("assistant",
                             IF agent.text = UndefinedText THEN EmptyText
                             ELSE agent.text),
     usage |-> agent.usage,
     runId |-> IF agent.responseId # NoId THEN agent.responseId ELSE agent.traceId]

\* A response payload: a JSON object.  A key that is not there is Absent
\* (error, status), NoPayloadMessage (message), UsageAbsent (usage), NoId (runId).
NoPayloadMessage == ChatMessage(UndefinedRole, UndefinedText)
Payload(err, status, message, usage, runId) ==
    [error |-> err, status |-> status, message |-> message, usage |-> usage,
     runId |-> runId]
ErrorPayload(err, status) == Payload(err, status, NoPayloadMessage, UsageAbsent, NoId)

MissingWorkflowError == "Workflow recipeChatWorkflow is not registered"
ExecutionFailedError == "Workflow execution failed"
ServiceUnavailableError == "service unavailable, please retry later"

Response(status, payload) == [status |-> status, payload |-> payload]

\* Mutant: the run's own identifier is not used when the step supplies none.
SuccessResponse_NoRunIdFallback(result, runId) ==
    Response(200,
             Payload(Absent, Absent, result.message,
                     IF result.usage = UsageUndefined THEN UsageAbsent ELSE result.usage,
                     result.runId))

\* NextResponse.json of the success object: JSON drops an undefined usage.
SuccessResponse(result, runId) ==
    Response(200,
             Payload(Absent, Absent, result.message,
                     IF result.usage = UsageUndefined THEN UsageAbsent ELSE result.usage,
                     IF result.runId # NoId THEN result.runId ELSE runId))

\* Mutant: a ZodError is answered like any other exception.
POST_ZodAsGeneric(body, env) ==
    IF body.kind = "notjson" \/ requestSchema(body) # <<>>
    THEN Response(500, ErrorPayload(ServiceUnavailableError, Absent))
    ELSE IF env.workflow = "missing"
    THEN Response(500, ErrorPayload(MissingWorkflowError, Absent))
    ELSE IF env.run = "rejects"
    THEN Response(500, ErrorPayload(ServiceUnavailableError, Absent))
    ELSE IF env.run # "success"
    THEN Response(500, ErrorPayload(ExecutionFailedError, env.run))
    ELSE SuccessResponse(execute(env.agent), env.runId)

\* export async function POST(req)
POST(body, env) ==
    IF body.kind = "notjson"
    THEN Response(500, ErrorPayload(ServiceUnavailableError, Absent))
    ELSE IF requestSchema(body) # <<>>
    THEN Response(400, ErrorPayload(Join(requestSchema(body)), Absent))
    ELSE IF env.workflow = "missing"
    THEN Response(500, ErrorPayload(MissingWorkflowError, Absent))
    ELSE IF env.run = "rejects"
    THEN Response(500, ErrorPayload(ServiceUnavailableError, Absent))
    ELSE IF env.run # "success"
    THEN Response(500, ErrorPayload(ExecutionFailedError, env.run))
    ELSE SuccessResponse(execute(env.agent), env.runId)

(***************************************************************************)
(* The segmenter: parseMessageContent (page.tsx:24-77).  A content is a    *)
(* sequence of tokens: the characters that matter to the function ("#",    *)
(* "-", "*", ".", digits, white space, line breaks) and words, which stand *)
(* for runs of other characters.                                           *)
(***************************************************************************)
NL == "\n"
CR == "\r"
Digits == {"1", "2"}
IsSpace(t) == t \in {SP, CR}

Heading(level, text) == [type |-> "heading", level |-> level, text |-> text]
Paragraph(text) == [type |-> "paragraph", text |-> text]
List(items) == [type |-> "list", items |-> items]
Divider == [type |-> "divider"]
NotParsed == <<[type |-> "<not parsed>"]>>

\* content.split(/\r?\n/), cur being the line read so far.
RECURSIVE SplitFrom(_, _)
SplitFrom(rest, cur) ==
    IF rest = <<>> THEN <<cur>>
    ELSE IF Head(rest) = NL THEN <<cur>> \o SplitFrom(Tail(rest), <<>>)
    ELSE IF Head(rest) = CR /\ Len(rest) >= 2 /\ rest[2] = NL
    THEN <<cur>> \o SplitFrom(Tail(Tail(rest)), <<>>)
    ELSE SplitFrom(Tail(rest), Append(cur, Head(rest)))

split(text) == SplitFrom(text, <<>>)

\* The length of the longest prefix of line made of tokens of S.
RECURSIVE RunLength(_, _)
RunLength(line, S) ==
    IF line # <<>> /\ Head(line) \in S THEN 1 + RunLength(Tail(line), S) ELSE 0

Drop(line, n) == SubSeq(line, n + 1, Len(line))

\* rawLine.trim()
RECURSIVE TrimLineEnd(_)
TrimLineEnd(line) ==
    IF line # <<>> /\ IsSpace(line[Len(line)])
    THEN TrimLineEnd(SubSeq(line, 1, Len(line) - 1)) ELSE line

TrimLine(line) == TrimLineEnd(Drop(line, RunLength(line, {SP, CR})))

\* /^(#{1,4})\s+(.*)$/: the number of # matched, 0 when there is no match.
headingMatch(line) ==
    LET hashes == RunLength(line, {"#"})
    IN  IF hashes \in 1..4 /\ RunLength(Drop(line, hashes), {SP, CR}) >= 1
        THEN hashes ELSE 0

\* /^[-*]\s+/ and /^\d+\.\s+/: the length of the match, 0 when there is none.
bulletMatch(line) ==
    IF line # <<>> /\ Head(line) \in {"-", "*"} /\ RunLength(Tail(line), {SP, CR}) >= 1
    THEN 1 + RunLength(Tail(line), {SP, CR}) ELSE 0

numberMatch(line) ==
    LET digits == RunLength(line, Digits)
        rest == Drop(line, digits)
    IN  IF /\ digits >= 1
           /\ rest # <<>>
           /\ Head(rest) = "."
           /\ RunLength(Tail(rest), {SP, CR}) >= 1
        THEN digits + 1 + RunLength(Tail(rest), {SP, CR}) ELSE 0

\* Mutant: flushList pushes the list even when the buffer is empty.
flushList_PushesEmpty(st) ==
    [segments |-> Append(st.segments, List(st.listBuffer)), listBuffer |-> <<>>]

\* page.tsx:35-40: flushList, on the state [segments, listBuffer] of the loop.
flushList(st) ==
    IF Len(st.listBuffer) > 0
    THEN [segments |-> Append(st.segments, List(st.listBuffer)), listBuffer |-> <<>>]
    ELSE st

\* page.tsx:42-73: the body of lines.forEach.
visitLine(st, rawLine) ==
    LET line == TrimLine(rawLine)
        flushed == flushList(st)
    IN  IF line = <<>> THEN flushed
        ELSE IF line = <<"-", "-", "-">>
        THEN [flushed EXCEPT !.segments = Append(@, Divider)]
        ELSE IF headingMatch(line) > 0
        THEN [flushed EXCEPT !.segments =
                 Append(@, Heading(headingMatch(line),
                                   Drop(line, headingMatch(line)
                                        + RunLength(Drop(line, headingMatch(line)),
                                                    {SP, CR}))))]
        ELSE IF bulletMatch(line) > 0
        THEN [st EXCEPT !.listBuffer = Append(@, Drop(line, bulletMatch(line)))]
        ELSE IF numberMatch(line) > 0
        THEN [st EXCEPT !.listBuffer = Append(@, Drop(line, numberMatch(line)))]
        ELSE [flushed EXCEPT !.segments = Append(@, Paragraph(line))]

RECURSIVE forEach(_, _)
forEach(lines, st) ==
    IF lines = <<>> THEN st ELSE forEach(Tail(lines), visitLine(st, Head(lines)))

\* parseMessageContent (page.tsx:30-77).
parseMessageContent(text) ==
    flushList(forEach(split(text), [segments |-> <<>>, listBuffer |-> <<>>])).segments

(***************************************************************************)
(* The conversation store: the value under STORAGE_KEY (page.tsx:17) and   *)
(* the two effects that read and write it (page.tsx:137-161).              *)
(*                                                                         *)
(* A stored value is [kind, elems]: "absent" (getItem returns null),       *)
(* "empty" (the empty string), "garbage" (JSON.parse throws), "number" (a  *)
(* JSON number) or "array" (a JSON array of the objects elems).            *)
(***************************************************************************)
Stored(kind, elems) == [kind |-> kind, elems |-> elems]

\* Mutant: the identifiers are not written.
JSONstringify_WithoutIds(msgs) ==
    Stored("array",
           [i \in 1..Len(msgs) |->
               [msgs[i] EXCEPT !.id = NoId,
                               !.usage = IF @ = UsageUndefined THEN UsageAbsent ELSE @]])

\* JSON.stringify(messages): a key whose value is undefined is not written.
JSONstringify(msgs) ==
    Stored("array",
           [i \in 1..Len(msgs) |->
               [msgs[i] EXCEPT !.usage = IF @ = UsageUndefined THEN UsageAbsent ELSE @]])

InitialStorage ==
    {Stored(k, <<>>) : k \in {"absent", "empty", "garbage", "number", "array"}}
    \cup {Stored("array", <<NotAMessage>>), Stored("array", <<NotAMessage, NotAMessage>>)}

\* The hydration effect calls createWelcomeMessage (page.tsx:147, 151).
UsesWelcome(cached) ==
    /\ cached.kind \notin {"absent", "empty"}
    /\ ~(cached.kind = "array" /\ Len(cached.elems) > 0)

\* Mutant: the hydration effect adopts an array whatever its length.
hydrationEffect_NoLengthCheck(cached, current, welcome) ==
    IF cached.kind \in {"absent", "empty"} THEN current
    ELSE IF cached.kind = "garbage" THEN <<welcome>>
    ELSE IF cached.kind = "array" THEN cached.elems
    ELSE <<welcome>>

\* The hydration effect (page.tsx:137-155): the messages it leaves.
hydrationEffect(cached, current, welcome) ==
    IF cached.kind \in {"absent", "empty"} THEN current
    ELSE IF cached.kind = "garbage" THEN <<welcome>>
    ELSE IF cached.kind = "array" /\ Len(cached.elems) > 0 THEN cached.elems
    ELSE <<welcome>>

\* Mutant: the persist effect never writes.
persistEffect_NeverWrites(hydrated, msgs, stored) == stored

\* The persist effect (page.tsx:157-161): the stored value it leaves.
persistEffect(hydrated, msgs, stored) ==
    IF ~hydrated THEN stored ELSE JSONstringify(msgs)

(***************************************************************************)
(* React runs the passive effects of a commit later, and at the latest     *)
(* before it renders the next update.  passive says which are due:         *)
(* "mount" (both effects, after the first render), "persist" (the persist  *)
(* effect, after a commit that changed messages or isHydrated) or "none".  *)
(* FlushPassive(stored, n) is the state once the due effects have run on   *)
(* the stored value stored, n being the next unused identifier.            *)
(***************************************************************************)
FlushPassive(stored, n) ==
    IF passive = "mount"
    THEN [messages |-> hydrationEffect(stored, messages, createWelcomeMessage(Id("local", n))),
          isHydrated |-> TRUE,
          storage |-> persistEffect(isHydrated, messages, stored),
          nextId |-> IF UsesWelcome(stored) THEN n + 1 ELSE n,
          passive |-> "persist"]
    ELSE [messages |-> messages,
          isHydrated |-> isHydrated,
          storage |-> IF passive = "persist"
                      THEN persistEffect(isHydrated, messages, stored) ELSE stored,
          nextId |-> n,
          passive |-> "none"]

\* The scheduler runs the due effects.
RunPassiveEffects ==
    /\ passive # "none"
    /\ LET f == FlushPassive(storage, nextId)
       IN  /\ messages' = f.messages
           /\ isHydrated' = f.isHydrated
           /\ storage' = f.storage
           /\ nextId' = f.nextId
           /\ passive' = f.passive
    /\ UNCHANGED <<input, isLoading, error, calls, turns, clears, clearedBelow,
                   reloads>>
    /\ UNCHANGED <<gwVars, parserVars>>

\* The commit of an event handler's updates, after the due effects f: msgs is
\* the conversation it renders.  The effects of a commit made in an event
\* handler run before the handler's task ends; those of the hydration commit
\* stay due.
Commit(f, msgs) ==
    /\ messages' = msgs
    /\ isHydrated' = f.isHydrated
    /\ nextId' = f.nextId
    /\ IF f.passive = "persist"
       THEN storage' = f.storage /\ passive' = "persist"
       ELSE /\ storage' = IF msgs # messages
                          THEN persistEffect(f.isHydrated, msgs, f.storage)
                          ELSE f.storage
            /\ passive' = "none"

(***************************************************************************)
(* The page (page.tsx:126-231).                                            *)
(***************************************************************************)
\* onChange of the input (page.tsx:303), which is disabled while loading (306).
SetInput(text) ==
    /\ ~isLoading
    /\ input' = text
    /\ Commit(FlushPassive(storage, nextId), FlushPassive(storage, nextId).messages)
    /\ UNCHANGED <<isLoading, error, calls, turns, clears, clearedBelow,
                   reloads>>
    /\ UNCHANGED <<gwVars, parserVars>>

\* A suspended handleSubmit invocation: its closure and where it waits.
NoHttpResponse == [body |-> "none", status |-> 0, payload |-> ErrorPayload(Absent, Absent)]
Call(userMessage, optimisticMessages, closureMessages, closureInput) ==
    [userMessage |-> userMessage,
     optimisticMessages |-> optimisticMessages,
     messages |-> closureMessages,
     input |-> closureInput,
     pc |-> "fetch",
     response |-> NoHttpResponse]

\* page.tsx:171: the guard of handleSubmit.
SubmitRejected == Trim(input) = EmptyText \/ isLoading

\* Mutant: handleSubmit forgets to set the loading flag.
LoadingAfterSubmit_Forgotten == FALSE

\* page.tsx:183: setIsLoading(true).
LoadingAfterSubmit == TRUE

\* handleSubmit up to its first await (page.tsx:169-186).
handleSubmit ==
    IF SubmitRejected
    THEN UNCHANGED vars
    ELSE /\ turns < MaxTurns
         /\ LET userMessage == UIMessage(generateId, "user", Trim(input), UsageAbsent)
                optimisticMessages == Append(messages, userMessage)
                f == FlushPassive(storage, nextId + 1)
            IN  /\ Commit(f, IF f.messages # messages THEN f.messages
                             ELSE optimisticMessages)
                /\ calls' = calls \cup
                       {Call(userMessage, optimisticMessages, messages, input)}
         /\ input' = EmptyText
         /\ error' = Null
         /\ isLoading' = LoadingAfterSubmit
              /\ turns' = turns + 1
         /\ UNCHANGED <<clears, clearedBelow, reloads>>
         /\ UNCHANGED <<gwVars, parserVars>>

\* Mutant: handleClearHistory has no guard.
ClearRejected_Never == FALSE

\* page.tsx:225: the guard of handleClearHistory.
ClearRejected == isLoading

\* Mutant: the welcome message is put in front of the history.
ClearedMessages_KeepsHistory ==
    IF ClearRejected THEN messages
    ELSE <<createWelcomeMessage(generateId)>> \o messages

\* page.tsx:225-227: the conversation an invocation of handleClearHistory
\* leaves.  Before the hydration effect has run, that effect then reads the
\* value the handler has stored.
ClearedMessages ==
    IF ClearRejected THEN messages
    ELSE LET welcome == createWelcomeMessage(generateId)
             f == FlushPassive(JSONstringify(<<welcome>>), nextId + 1)
         IN  IF passive = "mount" THEN f.messages ELSE <<welcome>>

\* handleClearHistory (page.tsx:224-231).
handleClearHistory ==
    IF ClearRejected
    THEN UNCHANGED vars
    ELSE /\ clears < MaxClears
         /\ LET welcome == createWelcomeMessage(generateId)
                f == FlushPassive(JSONstringify(<<welcome>>), nextId + 1)
            IN  Commit(f, ClearedMessages)
         /\ clears' = clears + 1
         /\ clearedBelow' = nextId
              /\ UNCHANGED <<input, isLoading, error, calls, turns, reloads>>
         /\ UNCHANGED <<gwVars, parserVars>>

(***************************************************************************)
(* The rest of handleSubmit (page.tsx:186-221), one action per await.      *)
(***************************************************************************)
\* page.tsx:189-194: the request body, identifiers stripped.
RequestBody(c) ==
    Body("list",
         [i \in 1..Len(c.optimisticMessages) |->
             ChatMessage(c.optimisticMessages[i].role, c.optimisticMessages[i].content)])

HttpResponse(body, status, payload) ==
    [body |-> body, status |-> status, payload |-> payload]

\* Answers that do not come from the route handler: a page that is not JSON,
\* the JSON value null, and JSON objects that lack fields of the envelope.
PartialPayloads ==
    {Payload(Absent, Absent, NoPayloadMessage, UsageAbsent, NoId),
     Payload(Null, Absent, NoPayloadMessage, UsageAbsent, NoId),
     Payload(Absent, Absent, ChatMessage(UndefinedRole, ReplyText), SomeUsage, NoId)}

IntermediaryResponses ==
    {HttpResponse("notjson", 502, ErrorPayload(Absent, Absent)),
     HttpResponse("nonobject", 200, ErrorPayload(Absent, Absent))}
    \cup {HttpResponse("object", 200, p) : p \in PartialPayloads}

\* Messages of the errors the page catches.
FetchFailedError == "Failed to fetch"
JsonSyntaxError == "Unexpected token < in JSON at position 0"
InOperatorError == "Cannot use 'in' operator to search for 'error' in null"
UnavailableError == "service temporarily unavailable"
SendFailedError == "sending failed, please retry"

\* Mutant: the rollback leaves the optimistic user message in place.
RemoveById_KeepsAll(msgs, id) == msgs

\* page.tsx:217: prev.filter((msg) => msg.id !== userMessage.id)
RECURSIVE RemoveById(_, _)
RemoveById(msgs, id) ==
    IF msgs = <<>> THEN <<>>
    ELSE IF Head(msgs).id # id THEN <<Head(msgs)>> \o RemoveById(Tail(msgs), id)
    ELSE RemoveById(Tail(msgs), id)

\* Mutant: the catch block does not put the text back into the input.
Rollback_NoInputRestore(c, message) ==
    /\ error' = message
    /\ messages' = RemoveById(messages, c.userMessage.id)
    /\ isLoading' = FALSE
    /\ calls' = calls \ {c}
    /\ passive' = "persist"
    /\ UNCHANGED <<input, isHydrated, storage, nextId, turns, clears, clearedBelow,
                   reloads>>
    /\ UNCHANGED <<gwVars, parserVars>>

\* Mutant: the loading flag is not cleared after a failure.
Rollback_KeepsLoading(c, message) ==
    /\ error' = message
    /\ messages' = RemoveById(messages, c.userMessage.id)
    /\ input' = c.userMessage.content
    /\ isLoading' = TRUE
    /\ calls' = calls \ {c}
    /\ passive' = "persist"
    /\ UNCHANGED <<isHydrated, storage, nextId, turns, clears, clearedBelow,
                   reloads>>
    /\ UNCHANGED <<gwVars, parserVars>>

\* page.tsx:214-221: the catch and finally blocks.
Rollback(c, message) ==
    /\ error' = message
    /\ messages' = RemoveById(messages, c.userMessage.id)
    /\ input' = c.userMessage.content
    /\ isLoading' = FALSE
    /\ calls' = calls \ {c}
    /\ passive' = "persist"
    /\ UNCHANGED <<isHydrated, storage, nextId, turns, clears, clearedBelow,
                   reloads>>
    /\ UNCHANGED <<gwVars, parserVars>>

\* page.tsx:186: the fetch promise rejects, with an Error or with another value.
FetchRejects(c, isError) ==
    /\ c.pc = "fetch"
    /\ Rollback(c, IF isError THEN FetchFailedError ELSE SendFailedError)

\* The fetch promise resolves with response r.
FetchResolves(c, r) ==
    /\ c.pc = "fetch"
    /\ calls' = (calls \ {c}) \cup {[c EXCEPT !.pc = "json", !.response = r]}
    /\ UNCHANGED <<messages, input, isLoading, error, isHydrated, storage, passive,
                   nextId, turns, clears, clearedBelow,
                   reloads>>
    /\ UNCHANGED <<gwVars, parserVars>>

\* The route handler answers the request of c.
GatewayResponds(c, env) ==
    LET r == POST(RequestBody(c), env)
    IN  FetchResolves(c, HttpResponse("object", r.status, r.payload))

\* Something else answers it.
IntermediaryResponds(c, r) == FetchResolves(c, r)

\* Mutant: the assistant message always gets a generated identifier.
AssistantMessage_IgnoresRunId(payload, fresh) ==
    UIMessage(fresh,
              IF payload.message.role # UndefinedRole THEN payload.message.role
              ELSE "assistant",
              IF payload.message.content # UndefinedText THEN payload.message.content
              ELSE FallbackContent,
              IF payload.usage = UsageAbsent THEN UsageUndefined ELSE payload.usage)

\* page.tsx:205-211: the assistant message of a success payload.
AssistantMessage(payload, fresh) ==
    UIMessage(IF payload.runId # NoId THEN payload.runId ELSE fresh,
              IF payload.message.role # UndefinedRole THEN payload.message.role
              ELSE "assistant",
              IF payload.message.content # UndefinedText THEN payload.message.content
              ELSE FallbackContent,
              IF payload.usage = UsageAbsent THEN UsageUndefined ELSE payload.usage)

\* page.tsx:213: setMessages([...optimisticMessages, assistantMessage])
MessagesAfterSuccess(c, assistantMessage) ==
    Append(c.optimisticMessages, assistantMessage)

\* page.tsx:197-221: response.json() settles and the invocation finishes.
BodySettles(c) ==
    /\ c.pc = "json"
    /\ IF c.response.body = "notjson"
       THEN Rollback(c, JsonSyntaxError)
       ELSE IF c.response.body = "nonobject"
       THEN Rollback(c, InOperatorError)
       ELSE IF c.response.payload.error # Absent
       THEN Rollback(c, IF c.response.payload.error = Null THEN UnavailableError
                        ELSE c.response.payload.error)
       ELSE /\ messages' = MessagesAfterSuccess(
                               c, AssistantMessage(c.response.payload, generateId))
            /\ nextId' = IF c.response.payload.runId # NoId THEN nextId ELSE nextId + 1
            /\ isLoading' = FALSE
            /\ calls' = calls \ {c}
            /\ passive' = "persist"
            /\ UNCHANGED <<input, error, isHydrated, storage, turns, clears, clearedBelow,
                   reloads>>
            /\ UNCHANGED <<gwVars, parserVars>>

\* The page is loaded again: the state of the component is gone, the stored
\* value stays, and no suspended invocation of the old page runs on.
Reload ==
    /\ reloads < MaxReloads
    /\ messages' = <<createWelcomeMessage(generateId)>>
    /\ nextId' = nextId + 1
    /\ input' = EmptyText
    /\ isLoading' = FALSE
    /\ error' = Null
    /\ isHydrated' = FALSE
    /\ passive' = "mount"
    /\ calls' = {}
    /\ reloads' = reloads + 1
    /\ UNCHANGED <<storage, turns, clears, clearedBelow>>
    /\ UNCHANGED <<gwVars, parserVars>>

(***************************************************************************)
(* The client, from the first render of the page.                          *)
(***************************************************************************)
NoBody == Body("none", <<>>)
NoEnv == Env("none", "none", NoAgentResult, NoId)
NoResponse == Response(0, ErrorPayload(Absent, Absent))

Init ==
    /\ messages = <<createWelcomeMessage(Id("local", 0))>>
    /\ nextId = 1
    /\ input = EmptyText
    /\ isLoading = FALSE
    /\ error = Null
    /\ isHydrated = FALSE
    /\ storage \in InitialStorage
    /\ passive = "mount"
    /\ calls = {}
    /\ turns = 0
    /\ clears = 0
    /\ clearedBelow = 0
    /\ reloads = 0
    /\ gwBody = NoBody
    /\ gwEnv = NoEnv
    /\ gwResp = NoResponse
    /\ gwPc = "none"
    /\ agentCalls = 0
    /\ rendered = <<>>
    /\ segments = NotParsed

Next ==
    \/ RunPassiveEffects
    \/ \E text \in InputTexts : SetInput(text)
    \/ handleSubmit
    \/ handleClearHistory
    \/ \E c \in calls, isError \in BOOLEAN : FetchRejects(c, isError)
    \/ \E c \in calls : \E env \in Envs(AgentReplies, Id("run", turns)) :
            GatewayResponds(c, env)
    \/ \E c \in calls : \E r \in IntermediaryResponses : IntermediaryResponds(c, r)
    \/ \E c \in calls : BodySettles(c)
    \/ Reload

Spec == Init /\ [][Next]_vars

(***************************************************************************)
(* The client under fair scheduling: React runs the effects that are due,  *)
(* a fetch that was started settles, and so does response.json().          *)
(***************************************************************************)
FetchSettles ==
    \/ \E c \in calls, isError \in BOOLEAN : FetchRejects(c, isError)
    \/ \E c \in calls : \E env \in Envs(AgentReplies, Id("run", turns)) :
            GatewayResponds(c, env)
    \/ \E c \in calls : \E r \in IntermediaryResponses : IntermediaryResponds(c, r)

JsonSettles == \E c \in calls : BodySettles(c)

FairSpec ==
    /\ Init
    /\ [][Next]_vars
    /\ WF_vars(RunPassiveEffects)
    /\ WF_vars(FetchSettles)
    /\ WF_vars(JsonSettles)

(***************************************************************************)
(* The gateway alone: every request body of the bounded set, under every   *)
(* behaviour of the collaborators.                                         *)
(***************************************************************************)
GatewayInit ==
    /\ messages = <<createWelcomeMessage(Id("local", 0))>>
    /\ nextId = 1
    /\ input = EmptyText
    /\ isLoading = FALSE
    /\ error = Null
    /\ isHydrated = FALSE
    /\ storage = Stored("absent", <<>>)
    /\ passive = "mount"
    /\ calls = {}
    /\ turns = 0
    /\ clears = 0
    /\ clearedBelow = 0
    /\ reloads = 0
    /\ gwBody \in Bodies
    /\ gwEnv \in Envs(AgentResults, Id("run", 0))
    /\ gwResp = NoResponse
    /\ gwPc = "none"
    /\ agentCalls = 0
    /\ rendered = <<>>
    /\ segments = NotParsed

GatewayPost ==
    /\ gwResp = NoResponse
    /\ gwPc = "none"
    /\ gwResp' = POST(gwBody, gwEnv)
    /\ UNCHANGED <<gwBody, gwEnv, gwPc, agentCalls>>
    /\ UNCHANGED <<clientVars, parserVars>>

GatewayNext == GatewayPost

GatewaySpec == GatewayInit /\ [][GatewayNext]_vars

(***************************************************************************)
(* The route handler step by step (page.tsx:346-393), with the calls of    *)
(* the agent counted.  A run that "rejects" does so in createRunAsync or   *)
(* in start, and start may or may not have run the step by then; a run     *)
(* that ends "suspended" may or may not have run it; a run that ends       *)
(* "failed" has run the step, whose agent call threw.                      *)
(***************************************************************************)
\* createStep and createWorkflow are given no retry option
\* (recipe-workflow.ts:21-30, 33-39): a failed step is not run again.
stepRetries == 0

DelegationInit ==
    /\ messages = <<createWelcomeMessage(Id("local", 0))>>
    /\ nextId = 1
    /\ input = EmptyText
    /\ isLoading = FALSE
    /\ error = Null
    /\ isHydrated = FALSE
    /\ storage = Stored("absent", <<>>)
    /\ passive = "mount"
    /\ calls = {}
    /\ turns = 0
    /\ clears = 0
    /\ clearedBelow = 0
    /\ reloads = 0
    /\ gwBody \in Bodies
    /\ gwEnv \in Envs(AgentReplies, Id("run", 0))
    /\ gwResp = NoResponse
    /\ gwPc = "received"
    /\ agentCalls = 0
    /\ rendered = <<>>
    /\ segments = NotParsed

\* The handler returns its response.
Returns ==
    /\ gwResp' = POST(gwBody, gwEnv)
    /\ gwPc' = "done"
    /\ UNCHANGED <<gwBody, gwEnv, agentCalls>>
    /\ UNCHANGED <<clientVars, parserVars>>

Continues(pc) ==
    /\ gwPc' = pc
    /\ UNCHANGED <<gwBody, gwEnv, gwResp, agentCalls>>
    /\ UNCHANGED <<clientVars, parserVars>>

\* page.tsx:348-357: req.json(), requestSchema.parse, the workflow lookup.
GatewayReceives ==
    /\ gwPc = "received"
    /\ IF \/ gwBody.kind = "notjson"
          \/ requestSchema(gwBody) # <<>>
          \/ gwEnv.workflow = "missing"
       THEN Returns
       ELSE Continues("createRun")

\* page.tsx:360: await workflow.createRunAsync()
createRunAsync ==
    /\ gwPc = "createRun"
    /\ \/ gwEnv.run = "rejects" /\ Returns
       \/ Continues("start")

\* page.tsx:361: await run.start({inputData: input}), up to the step.
start ==
    /\ gwPc = "start"
    /\ \/ gwEnv.run \in {"rejects", "suspended"} /\ Continues("return")
       \/ Continues("execute")

\* Mutant: a step whose agent call failed is run once more.
delegateToAgent_RetriesOnce ==
    /\ gwPc = "execute"
    /\ agentCalls' = agentCalls + 1
    /\ gwPc' = IF gwEnv.run = "failed" /\ agentCalls < 1
               THEN "execute" ELSE "return"
    /\ UNCHANGED <<gwBody, gwEnv, gwResp>>
    /\ UNCHANGED <<clientVars, parserVars>>

\* recipe-workflow.ts:40-62: the step calls recipeAgent.generate once.
delegateToAgent ==
    /\ gwPc = "execute"
    /\ agentCalls' = agentCalls + 1
    /\ gwPc' = IF gwEnv.run = "failed" /\ agentCalls < stepRetries
               THEN "execute" ELSE "return"
    /\ UNCHANGED <<gwBody, gwEnv, gwResp>>
    /\ UNCHANGED <<clientVars, parserVars>>

\* page.tsx:363-392: start has settled; the response of the handler.
GatewayReturns ==
    /\ gwPc = "return"
    /\ Returns

DelegationNext ==
    \/ GatewayReceives
    \/ createRunAsync
    \/ start
    \/ delegateToAgent
    \/ GatewayReturns

DelegationSpec == DelegationInit /\ [][DelegationNext]_vars

(***************************************************************************)
(* The segmenter alone: the page renders an assistant message whose        *)
(* content is any sequence of at most MaxLines lines of the kinds below,   *)
(* or one of the two spellings of the example of the specification.        *)
(***************************************************************************)
LineKinds ==
    {<<>>, <<SP>>,
     <<"-", "-", "-">>, <<SP, "-", "-", "-", SP>>,
     <<"#", SP, "Title">>, <<SP, "#", "#", "#", "#", SP, SP, "Title", SP>>,
     <<"#", "#", "#", "#", "#", SP, "Title">>,
     <<"-", SP, "a">>, <<SP, "*", SP, "b", SP>>, <<"-", "a">>,
     <<"1", ".", SP, "a">>, <<SP, "1", "2", ".", SP, "b">>,
     <<"Done">>, <<SP, "Done", SP>>}

RECURSIVE JoinLines(_, _)
JoinLines(lines, breakTokens) ==
    IF lines = <<>> THEN <<>>
    ELSE IF Len(lines) = 1 THEN Head(lines)
    ELSE Head(lines) \o breakTokens \o JoinLines(Tail(lines), breakTokens)

ExampleLines ==
    << <<"#", SP, "Title">>, <<"-", SP, "a">>, <<"-", SP, "b">>, <<"-", "-", "-">>,
       <<"Done">> >>
Example == JoinLines(ExampleLines, <<NL>>)
ExampleCRLF == JoinLines(ExampleLines, <<CR, NL>>)

Contents ==
    {JoinLines(ls, <<NL>>) : ls \in SeqsUpTo(LineKinds, MaxLines)}
    \cup {Example, ExampleCRLF}

ParserInit ==
    /\ messages = <<createWelcomeMessage(Id("local", 0))>>
    /\ nextId = 1
    /\ input = EmptyText
    /\ isLoading = FALSE
    /\ error = Null
    /\ isHydrated = FALSE
    /\ storage = Stored("absent", <<>>)
    /\ passive = "mount"
    /\ calls = {}
    /\ turns = 0
    /\ clears = 0
    /\ clearedBelow = 0
    /\ reloads = 0
    /\ gwBody = NoBody
    /\ gwEnv = NoEnv
    /\ gwResp = NoResponse
    /\ gwPc = "none"
    /\ agentCalls = 0
    /\ rendered \in Contents
    /\ segments = NotParsed

\* page.tsx:273-276: the render of an assistant message.
renderMessage ==
    /\ segments = NotParsed
    /\ segments' = parseMessageContent(rendered)
    /\ UNCHANGED rendered
    /\ UNCHANGED <<clientVars, gwVars>>

ParserNext == renderMessage

ParserSpec == ParserInit /\ [][ParserNext]_vars

(***************************************************************************)
(* Properties.                                                             *)
(***************************************************************************)
\* The submissions in flight, by the identifier of their user message.
InFlight == {c.userMessage.id : c \in calls}

\* The step ends the invocation c at its fetch (the promise rejects).
EndsAtFetch(c) == c.pc = "fetch" /\ calls' = calls \ {c} /\ reloads' = reloads

\* The step ends the invocation c after response.json().
EndsAtBody(c) == c.pc = "json" /\ calls' = calls \ {c} /\ reloads' = reloads

ErrorShaped(r) == r.body = "object" /\ r.payload.error # Absent
SuccessShaped(r) == r.body = "object" /\ r.payload.error = Absent

\* C1: while a submission is in flight, a step that does not end it (a submit
\* attempt in particular) changes neither the conversation nor the input, the
\* error, the loading flag or the stored value, and never is more than one
\* request in flight.
C1_SubmitWhileInFlightIsNoOp ==
    [][/\ Cardinality(InFlight') <= 1
       /\ (InFlight # {} /\ InFlight' = InFlight)
              => UNCHANGED <<messages, input, error, isLoading, storage, turns>>]_vars

C1_Witness == isLoading /\ Cardinality(InFlight) = 1 /\ Len(messages) >= 2

\* C2 as stated: after an error-shaped response the conversation is the one
\* before the submission and the input is the text that was submitted.
C2_Original ==
    [][\A c \in calls :
          (EndsAtBody(c) /\ ErrorShaped(c.response))
              => (messages' = c.messages /\ input' = c.input)]_vars

\* C2 as amended: after an error-shaped response the conversation is the one
\* before the submission and the input is the submitted text trimmed.
C2_RollbackRestoresTrimmedInput ==
    [][\A c \in calls :
          (EndsAtBody(c) /\ ErrorShaped(c.response))
              => /\ messages' = c.messages
                 /\ input' = Trim(c.input)
                 /\ ~isLoading']_vars

C2_Witness ==
    /\ error = ExecutionFailedError
    /\ ~isLoading
    /\ calls = {}
    /\ input = <<"hi">>
    /\ Len(messages) >= 1

\* C3: after a success-shaped response the conversation is the one before the
\* submission, then the user message with the trimmed text, then one assistant
\* message: its identifier the runId of the response or else a fresh one, its
\* role and content those of the payload or else assistant and the fallback
\* text, its usage that of the response.
C3_SuccessAppendsOneReply ==
    [][\A c \in calls :
          (EndsAtBody(c) /\ SuccessShaped(c.response))
              => LET p == c.response.payload
                     n == Len(c.messages)
                 IN  /\ Len(messages') = n + 2
                     /\ SubSeq(messages', 1, n) = c.messages
                     /\ messages'[n + 1].role = "user"
                     /\ messages'[n + 1].content = Trim(c.input)
                     /\ IF p.runId # NoId
                        THEN messages'[n + 2].id = p.runId
                        ELSE \A i \in 1..(n + 1) : messages'[i].id # messages'[n + 2].id
                     /\ messages'[n + 2].id # NoId
                     /\ messages'[n + 2].role =
                            (IF p.message.role = UndefinedRole THEN "assistant"
                             ELSE p.message.role)
                     /\ messages'[n + 2].content =
                            (IF p.message.content = UndefinedText THEN FallbackContent
                             ELSE p.message.content)
                     /\ (p.usage = UsageAbsent => UsageOf(messages'[n + 2]) = UsageUndefined)
                     /\ (p.usage # UsageAbsent => UsageOf(messages'[n + 2]) = p.usage)]_vars

C3_Witness ==
    /\ ~isLoading
    /\ calls = {}
    /\ Len(messages) >= 3
    /\ messages[Len(messages) - 1].role = "user"
    /\ messages[Len(messages)].id = AgentResponseId
    /\ messages[Len(messages)].content = ReplyText
    /\ messages[Len(messages)].usage = SomeUsage

\* C4: a rejected fetch, a body that is not JSON and a payload that is not an
\* object all end as an error payload does: the user message is gone and the
\* conversation is the one before the submission, the input is restored, an
\* error text is set and the loading flag is cleared.
C4_TransportFailureRollsBack ==
    [][\A c \in calls :
          (\/ EndsAtFetch(c)
           \/ (EndsAtBody(c) /\ c.response.body \in {"notjson", "nonobject"}))
              => /\ messages' = c.messages
                 /\ \A i \in 1..Len(messages') : messages'[i].id # c.userMessage.id
                 /\ input' = Trim(c.input)
                 /\ error' \notin {Null, ""}
                 /\ ~isLoading']_vars

C4_Witness ==
    /\ error \in {FetchFailedError, SendFailedError, JsonSyntaxError, InOperatorError}
    /\ ~isLoading
    /\ calls = {}
    /\ input = <<"hi">>

\* A message list the gateway must accept: not empty, every role of the
\* closed set, every content a text that is not empty.
ValidMessageList(body) ==
    /\ body.kind = "list"
    /\ Len(body.list) >= 1
    /\ \A i \in 1..Len(body.list) :
          /\ body.list[i].role \in {"user", "assistant", "system"}
          /\ body.list[i].content # UndefinedText
          /\ body.list[i].content # <<>>

\* A body that was parsed and whose messages fail validation.
FailsValidation(body) == body.kind # "notjson" /\ ~ValidMessageList(body)

\* C5: for a valid message list the response is a success envelope (a message
\* and a runId, no error) or an error envelope (an error text that is not
\* empty, no message and no runId): never both, never neither.
C5_ExactlyOneEnvelope ==
    (gwResp # NoResponse /\ ValidMessageList(gwBody))
        => LET p == gwResp.payload
           IN  \/ /\ p.error = Absent
                  /\ p.message # NoPayloadMessage
                  /\ p.runId # NoId
               \/ /\ p.error \notin {Absent, Null, ""}
                  /\ p.message = NoPayloadMessage
                  /\ p.runId = NoId

C5_Witness ==
    /\ ValidMessageList(gwBody)
    /\ gwResp.status = 200
    /\ gwEnv.agent.responseId = NoId
    /\ gwEnv.agent.traceId = NoId
    /\ gwResp.payload.runId = gwEnv.runId

\* C6: the status and error text of every outcome: 400 with the joined issue
\* messages when the messages fail validation; 500 with the missing-step text
\* when the step is not registered; 500 when the run does not succeed; 200 when
\* it does; 500 with the one generic text for every other exception.
C6_StatusAndErrorText ==
    gwResp # NoResponse
        => LET p == gwResp.payload
               ok == ValidMessageList(gwBody)
           IN  /\ FailsValidation(gwBody)
                      => /\ gwResp.status = 400
                         /\ p.error = Join(requestSchema(gwBody))
                         /\ p.error # ""
               /\ gwBody = Body("list", <<>>) => p.error = EmptyListIssue
               /\ gwBody = Body("nomessages", <<>>) => p.error = "Required"
               /\ gwBody = Body("list", <<ChatMessage(UndefinedRole, EmptyText)>>)
                      => p.error = "Required, content must not be empty"
               /\ (ok /\ gwEnv.workflow = "missing")
                      => gwResp.status = 500 /\ p.error = MissingWorkflowError
               /\ (ok /\ gwEnv.workflow = "registered"
                      /\ gwEnv.run \in {"failed", "suspended"})
                      => /\ gwResp.status = 500
                         /\ p.error = ExecutionFailedError
                         /\ p.status = gwEnv.run
               /\ (ok /\ gwEnv.workflow = "registered" /\ gwEnv.run = "success")
                      => gwResp.status = 200 /\ p.error = Absent
               /\ (gwBody.kind = "notjson"
                      \/ (ok /\ gwEnv.workflow = "registered" /\ gwEnv.run = "rejects"))
                      => gwResp.status = 500 /\ p.error = ServiceUnavailableError

C6_Witness ==
    /\ gwBody.kind = "list"
    /\ Len(gwBody.list) = 2
    /\ gwResp.status = 400
    /\ gwResp.payload.error = "Required, content must not be empty"

\* C7: the conversation holds at least one message in every state.
C7_NeverEmpty == Len(messages) >= 1

C7_Witness ==
    /\ clears >= 1
    /\ reloads >= 1
    /\ isHydrated
    /\ error # Null
    /\ ~isLoading
    /\ Len(messages) = 1

\* C8: no two messages of the conversation have the same identifier.
C8_UniqueIds ==
    \A i, j \in 1..Len(messages) : i # j => messages[i].id # messages[j].id

\* A stored value that is a non-empty array of {id, role, content} messages.
WellFormedStored(stored) ==
    /\ stored.kind = "array"
    /\ Len(stored.elems) >= 1
    /\ \A i \in 1..Len(stored.elems) :
          /\ stored.elems[i].id # NoId
          /\ stored.elems[i].role \in {"user", "assistant", "system"}
          /\ stored.elems[i].content # UndefinedText

IsWelcomeConversation(msgs) ==
    /\ Len(msgs) = 1
    /\ msgs[1].role = "assistant"
    /\ msgs[1].content = WelcomeContent
    /\ msgs[1].id # NoId

\* C9: the step that hydrates the page (storage' is the value it read) adopts
\* the stored value when that is a non-empty array of well-formed messages and
\* leaves the one-element welcome conversation in every other case.
C9_LoadDegradesToWelcome ==
    [][(~isHydrated /\ isHydrated')
          => IF WellFormedStored(storage')
             THEN messages' = storage'.elems
             ELSE IsWelcomeConversation(messages')]_vars

\* C10: no step taken before the page is hydrated changes the stored value.
C10_NoWriteBeforeLoad == [][~isHydrated => storage' = storage]_vars

\* The page is hydrated and its controller is Idle with no write pending.
IdleAndWritten == isHydrated /\ ~isLoading /\ passive = "none"

\* C11: once the page is hydrated, a step of the session that changes the
\* conversation either writes the new conversation in full or leaves that
\* write pending; the pending write, when it runs, stores the conversation
\* as it then is; a pending write does run; and whenever the controller is
\* Idle with no write pending the stored value is the serialized conversation.
C11_WriteAfterEveryMutation ==
    /\ [][(isHydrated' /\ reloads' = reloads /\ messages' # messages)
              => (passive' = "persist" \/ storage' = JSONstringify(messages'))]_vars
    /\ [][(isHydrated /\ reloads' = reloads /\ storage' # storage)
              => storage' = JSONstringify(messages')]_vars
    /\ [](IdleAndWritten => storage = JSONstringify(messages))
    /\ ((isHydrated /\ passive = "persist") ~> (passive = "none"))

C11_Witness ==
    /\ IdleAndWritten
    /\ Len(messages) >= 3
    /\ messages[Len(messages)].usage = UsageUndefined
    /\ storage = JSONstringify(messages)
    /\ storage.elems # messages
    /\ error # Null

\* A conversation of exactly one welcome message with identifier id.
IsFreshWelcome(msgs, id) ==
    /\ Len(msgs) = 1
    /\ msgs[1].role = "assistant"
    /\ msgs[1].content = WelcomeContent
    /\ msgs[1].id = id

\* C12 as stated: in every reachable state, invoking clear leaves a
\* conversation of exactly one assistant message with a fresh identifier.
C12_Original ==
    /\ IsFreshWelcome(ClearedMessages, generateId)
    /\ \A i \in 1..Len(messages) : messages[i].id # generateId

\* C12 as amended: in every reachable state with no submission in flight,
\* invoking clear leaves a conversation of exactly one assistant message with
\* an identifier no message had before, and a clear that takes effect leaves
\* exactly that one-element sequence in the store.
C12_ClearYieldsFreshWelcome ==
    /\ [](~isLoading
             => /\ IsFreshWelcome(ClearedMessages, generateId)
                /\ \A i \in 1..Len(messages) : messages[i].id # generateId)
    /\ [][clears' = clears + 1
              => /\ ~isLoading
                 /\ IsFreshWelcome(messages', generateId)
                 /\ \A i \in 1..Len(messages) : messages[i].id # messages'[1].id
                 /\ storage' = Stored("array", messages')
                 /\ passive' # "mount"]_vars

C12_Witness ==
    /\ clears >= 1
    /\ turns >= 1
    /\ reloads = 0
    /\ error = Null
    /\ ~isLoading
    /\ IsFreshWelcome(messages, Id("local", nextId - 1))
    /\ storage = Stored("array", messages)

\* The step takes the turn of c through Success: the snapshot of the
\* submission plus one reply, no error shown, the input left alone.
LeavesBySuccess(c) ==
    /\ Len(messages') = Len(c.optimisticMessages) + 1
    /\ SubSeq(messages', 1, Len(c.optimisticMessages)) = c.optimisticMessages
    /\ error' = Null
    /\ input' = input

\* The step takes the turn of c through Failed: the user message removed, an
\* error shown, the submitted text back in the input.
LeavesByFailure(c) ==
    /\ messages' = c.messages
    /\ error' # Null
    /\ input' = c.userMessage.content

\* C13: the controller is Submitting exactly while an invocation of
\* handleSubmit is suspended; the step of a session that ends Submitting is
\* the Success branch or the Failed branch of that invocation, never both,
\* and clears the loading flag; and when fetch and response.json() settle,
\* every Submitting state is followed by an Idle state.
C13_SubmittingReturnsToIdle ==
    /\ [](isLoading <=> calls # {})
    /\ [][(isLoading /\ reloads' = reloads /\ (~isLoading' \/ calls' = {}))
              => \E c \in calls :
                    /\ calls = {c}
                    /\ calls' = {}
                    /\ ~isLoading'
                    /\ LeavesBySuccess(c) \/ LeavesByFailure(c)
                    /\ ~(LeavesBySuccess(c) /\ LeavesByFailure(c))]_vars
    /\ (isLoading ~> ~isLoading)

C13_Witness ==
    /\ turns >= 2
    /\ reloads = 0
    /\ clears = 0
    /\ ~isLoading
    /\ calls = {}
    /\ error # Null
    /\ Len(messages) >= 3
    /\ messages[Len(messages) - 1].role = "user"
    /\ messages[Len(messages)].role = "assistant"
    /\ input = <<"hi">>

\* The collaborators are healthy: the step is registered, the run succeeds
\* and the agent returns a reply.
HealthyEnvs == {Env("registered", "success", a, Id("run", turns)) : a \in AgentReplies}

\* C14: whatever state the client has reached, the message list of a
\* submission in flight passes the gateway's validation, so that healthy
\* collaborators answer it with a success response.
C14_RetryRecovers ==
    \A c \in calls : \A env \in HealthyEnvs :
        /\ requestSchema(RequestBody(c)) = <<>>
        /\ POST(RequestBody(c), env).status = 200

\* The body is parsed and valid and the step is registered.
Delegable == ValidMessageList(gwBody) /\ gwEnv.workflow = "registered"

\* C15 as stated: the agent is called at most once, and exactly once
\* whenever the body passes validation and the step is registered.
C15_Original ==
    /\ agentCalls <= 1
    /\ (gwPc = "done" /\ Delegable) => agentCalls = 1

\* C15 as amended: the agent is called at most once for a request; never
\* when the body fails validation or the step is not registered; exactly
\* once when the run succeeds and when the agent fails, and the one failure
\* gives the error response 500.
C15_AgentCalledAtMostOnce ==
    /\ agentCalls <= 1
    /\ ~Delegable => agentCalls = 0
    /\ (gwPc = "done" /\ Delegable /\ gwEnv.run \in {"success", "failed"})
           => agentCalls = 1
    /\ (gwPc = "done" /\ Delegable /\ gwEnv.run = "failed")
           => /\ gwResp.status = 500
              /\ gwResp.payload.error = ExecutionFailedError
              /\ gwResp.payload.message = NoPayloadMessage
    /\ (gwPc = "done" /\ agentCalls = 0) => gwResp.payload.error # Absent

C15_Witness ==
    /\ gwPc = "done"
    /\ Delegable
    /\ Len(gwBody.list) = 2
    /\ gwEnv.run = "failed"
    /\ agentCalls = 1
    /\ gwResp.status = 500

\* C16: every message of the conversation has a role of the closed set and a
\* content that is a text and is not empty.
C16_EveryMessageValid ==
    \A i \in 1..Len(messages) :
        /\ messages[i].role \in chatRoles
        /\ messages[i].content # UndefinedText
        /\ messages[i].content # EmptyText

(***************************************************************************)
(* The algorithm of section 4.1 of the specification, line by line: what   *)
(* a line is, and how the lines of a content are grouped into segments.    *)
(***************************************************************************)
IsBlank(line) == RunLength(line, {SP, CR}) = Len(line)

Classify(line) ==
    IF IsBlank(line) THEN [kind |-> "blank", level |-> 0, text |-> <<>>]
    ELSE IF line = <<"-", "-", "-">> THEN [kind |-> "divider", level |-> 0, text |-> <<>>]
    ELSE IF headingMatch(line) > 0
    THEN [kind |-> "heading", level |-> RunLength(line, {"#"}),
          text |-> Drop(line, RunLength(line, {"#"})
                              + RunLength(Drop(line, RunLength(line, {"#"})), {SP, CR}))]
    ELSE IF bulletMatch(line) > 0
    THEN [kind |-> "item", level |-> 0, text |-> Drop(line, bulletMatch(line))]
    ELSE IF numberMatch(line) > 0
    THEN [kind |-> "item", level |-> 0, text |-> Drop(line, numberMatch(line))]
    ELSE [kind |-> "other", level |-> 0, text |-> TrimLine(line)]

\* The number of item lines at the start of kinds.
RECURSIVE ItemRun(_)
ItemRun(kinds) ==
    IF kinds # <<>> /\ Head(kinds).kind = "item" THEN 1 + ItemRun(Tail(kinds)) ELSE 0

\* Every maximal run of item lines is one list; a blank line gives nothing;
\* every other line gives its own segment, in the order of the lines.
RECURSIVE Group(_)
Group(kinds) ==
    IF kinds = <<>> THEN <<>>
    ELSE IF Head(kinds).kind = "item"
    THEN <<List([i \in 1..ItemRun(kinds) |-> kinds[i].text])>>
         \o Group(Drop(kinds, ItemRun(kinds)))
    ELSE IF Head(kinds).kind = "blank" THEN Group(Tail(kinds))
    ELSE IF Head(kinds).kind = "divider" THEN <<Divider>> \o Group(Tail(kinds))
    ELSE IF Head(kinds).kind = "heading"
    THEN <<Heading(Head(kinds).level, Head(kinds).text)>> \o Group(Tail(kinds))
    ELSE <<Paragraph(Head(kinds).text)>> \o Group(Tail(kinds))

\* The lines of the content rendered, by the line breaks written into it.
RenderedLines == split(rendered)

ExampleSegments ==
    <<Heading(1, <<"Title">>), List(<< <<"a">>, <<"b">> >>), Divider,
      Paragraph(<<"Done">>)>>

\* What holds of the segments under either reading of section 4.1.
SegmentLaws ==
    /\ \A i \in 1..Len(segments) :
          segments[i].type = "list" => Len(segments[i].items) >= 1
    /\ (\A i \in 1..Len(RenderedLines) : IsBlank(RenderedLines[i])) => segments = <<>>
    /\ rendered = <<>> => segments = <<>>
    /\ rendered \in {Example, ExampleCRLF} => segments = ExampleSegments

\* C17 as stated: the segments are those of the algorithm of section 4.1
\* applied to the lines as they are written, surrounding white space included.
C17_Original ==
    segments # NotParsed
        => /\ segments = Group([i \in 1..Len(RenderedLines) |-> Classify(RenderedLines[i])])
           /\ SegmentLaws

\* C17 as amended: the segments are those of the algorithm of section 4.1
\* applied to the lines with their surrounding white space removed: in line
\* order, every maximal run of item lines of either marker one list, no list
\* without items, nothing for blank lines, nothing for the empty string, and
\* the four segments of the example.
C17_SegmentsOfTrimmedLines ==
    segments # NotParsed
        => /\ segments =
                  Group([i \in 1..Len(RenderedLines) |-> Classify(TrimLine(RenderedLines[i]))])
           /\ SegmentLaws

C17_Witness ==
    /\ Len(RenderedLines) = 3
    /\ RenderedLines[1] = <<SP, "#", "#", "#", "#", SP, SP, "Title", SP>>
    /\ segments = <<Heading(4, <<"Title">>), List(<< <<"a">>, <<"b">> >>)>>

\* What a later page load returns when the stored value is stored: the page
\* then starts from a welcome message of its own.
LaterLoad(stored) ==
    hydrationEffect(stored, <<createWelcomeMessage(Id("local", nextId' + 1))>>,
                    createWelcomeMessage(Id("local", nextId' + 2)))

\* C18: in the step that loads the stored value, whatever it is, saving the
\* conversation loaded and loading again returns that same conversation, and
\* saving that again leaves the stored value as the first save left it.
C18_SaveAfterLoadIsIdempotent ==
    [][(~isHydrated /\ isHydrated')
          => LET loaded == messages'
                 saved == persistEffect(TRUE, loaded, storage')
             IN  /\ LaterLoad(saved) = loaded
                 /\ persistEffect(TRUE, LaterLoad(saved), saved) = saved]_vars

C18_Witness ==
    /\ reloads >= 1
    /\ isHydrated
    /\ passive = "persist"
    /\ Len(messages) >= 3
    /\ messages[2].role = "user"
    /\ storage = Stored("array", messages)

\* C19: in every hydrated Idle state every user message of the conversation
\* is followed at once by an assistant message.
C19_EveryUserMessageAnswered ==
    (isHydrated /\ ~isLoading)
        => \A i \in 1..Len(messages) :
              messages[i].role = "user"
                  => (i < Len(messages) /\ messages[i + 1].role = "assistant")

\* The messages in the conversation, in the store and in the snapshots of the
\* suspended invocations.
MessagesAnywhere ==
    {messages[i] : i \in 1..Len(messages)}
    \cup {storage.elems[i] : i \in 1..Len(storage.elems)}
    \cup UNION {{c.optimisticMessages[i] : i \in 1..Len(c.optimisticMessages)} : c \in calls}

\* C20: while a submission is in flight an invocation of clear is rejected
\* and leaves the conversation as it is, which is the snapshot of the
\* suspended invocation; a clear takes effect only with no invocation
\* suspended; and once a clear has taken effect, every message in the
\* conversation, in the store or in a snapshot was created by that clear or
\* after it: none is an element of the stored value the page started with,
\* none has an identifier generated before the clear, and every reply
\* identified by the gateway follows a user message.
C20_ClearedMessagesStayGone ==
    /\ [](isLoading => (ClearRejected /\ ClearedMessages = messages))
    /\ [](\A c \in calls : c.optimisticMessages = messages)
    /\ [][clears' = clears + 1 => (calls = {} /\ calls' = {} /\ ~isLoading)]_vars
    /\ [](clears >= 1
             => /\ \A m \in MessagesAnywhere :
                      /\ m # NotAMessage
                      /\ m.id.ns = "local" => m.id.n >= clearedBelow
                /\ \A i \in 1..Len(messages) :
                      messages[i].id.ns # "local"
                          => /\ i >= 2
                             /\ messages[i - 1].role = "user"
                             /\ messages[i - 1].id.ns = "local")

C20_Witness ==
    /\ clears >= 1
    /\ turns >= 2
    /\ reloads = 0
    /\ ~isLoading
    /\ error = Null
    /\ Len(messages) = 3
    /\ messages[1].id = Id("local", clearedBelow)
    /\ messages[3].id = AgentTraceId
    /\ storage = JSONstringify(messages)

====
